---- MODULE Spec2Model ----
(***************************************************************************)
(* The Odoo JSON-RPC client of src/src/odoo.rs: the session (struct Odoo), *)
(* its operations new, new_and_login, login, start, call and search_read, *)
(* and the send primitive they share.  A state is what a caller of the     *)
(* library can observe after an operation has completed: the sessions it   *)
(* holds, the requests the operation handed to the transport, and what the *)
(* operation returned.                                                     *)
(***************************************************************************)
EXTENDS Integers, Sequences, FiniteSets, TLC

----------------------------------------------------------------------------
(* Bounds of the model.                                                    *)

MaxUid  == 1      \* largest user id the modelled server hands out
MaxPage == 5      \* the limit / offset given to search_read
MaxFutures == 2   \* futures of call and search_read in flight at once

----------------------------------------------------------------------------
(* What the model records of the last completed operation: which method    *)
(* it was, its arguments, the reply the transport gave it (None when it     *)
(* posted nothing) and the value it returned.                               *)
Completed(op, in, reply, ret) ==
    [op |-> op, in |-> in, reply |-> reply, ret |-> ret]

(* Option<T>: None is the empty set, Some(x) the singleton.                *)

None == {}

Some(x) == {x}

is_some(o) == o # {}

unwrap(o) == CHOOSE x \in o : TRUE

(* serde_json values, tagged by their JSON kind.                           *)

JNull == [t |-> "null", v |-> 0]

JBool(b) == [t |-> "bool", v |-> b]

JNum(n) == [t |-> "num", v |-> n]

JStr(s) == [t |-> "str", v |-> s]

JArr(s) == [t |-> "arr", v |-> s]

JObj(f) == [t |-> "obj", v |-> f]

(* Serialize for Option<u32>: a number, or null for None.                  *)
SerOptU32(o) == IF is_some(o) THEN JNum(unwrap(o)) ELSE JNull

----------------------------------------------------------------------------
(* The inputs the caller and the remote server are drawn from.             *)

Hosts == {"https://demo.odoo.com"}

Databases == {"", "db"}

Logins == {"admin"}

Passwords == {"admin", "pw2"}

Models == {"res.partner"}

Methods == {"search", "read"}

(* The `fields` argument of search_read: omitted, or a list of names.      *)
FieldLists == {None, Some(<<"name">>), Some(<<"name", "default_code">>)}

(* The `limit` and `offset` arguments of search_read.                      *)
Pages == {None, Some(MaxPage)}

ServerMessages == {"Access Denied"}

(* Arguments of call: opaque serialisable values.                          *)
Args == {JArr(<<>>), JArr(<<JArr(<<JStr("id"), JStr(">"), JNum(2)>>)>>)}

(* Domains of search_read: opaque serialisable values.                     *)
Domains == {JArr(<<JStr("id"), JStr(">"), JNum(2)>>)}

(* Types E a field decoded with deserialize_odoo_nullable is declared as.  *)
TypesE ==
    {"u32", "i64", "String", "bool", "Vec<String>", "Option<String>", "Value"}

(* Raw JSON values the server may put in such a field.                     *)
RawFields ==
    {JBool(FALSE), JBool(TRUE), JNull} \cup
    {JNum(n) : n \in -1..MaxUid} \cup
    {JStr(""), JStr("REF1"), JStr("false")} \cup
    {JArr(<<>>), JArr(<<JStr("a")>>), JArr(<<JStr("a"), JStr("b")>>),
     JArr(<<JNum(1), JStr("Partner")>>)} \cup
    {JObj(<<>>), JObj([k \in {"id"} |-> JNum(1)])}

(* Result types U the caller asks a response to be decoded into.           *)
TypesU == {"u32", "Value"}

(* JSON values the server may put in `result`.                             *)
RawResults ==
    {JNum(0), JNum(MaxUid)} \cup
    {JBool(FALSE),
     JObj([k \in {"host", "database", "user", "password"} |-> JStr(k)])}

(* What the transport gives back for one POST: a connection failure, a     *)
(* body that is not JSON, or a JSON body with optional result and error    *)
(* (a success, an error, both fields, or neither).                         *)
Replies ==
    {[net |-> "fail", result |-> None, error |-> None],
     [net |-> "text", result |-> None, error |-> None]} \cup
    {[net |-> "json", result |-> r, error |-> None] :
        r \in {None} \cup {Some(v) : v \in RawResults}} \cup
    {[net |-> "json", result |-> r, error |-> Some(m)] :
        r \in {None, Some(JNum(MaxUid))}, m \in ServerMessages}

----------------------------------------------------------------------------
(* Results returned to the caller.                                         *)

Ok(v) == [kind |-> "Ok", val |-> v, msg |-> ""]

Err(m) == [kind |-> "Err", val |-> JNull, msg |-> m]

Panic(m) == [kind |-> "Panic", val |-> JNull, msg |-> m]

(* Display of reqwest::Error, by the step of send that produced it.        *)
ReqwestToString(step) ==
    IF step = "send" THEN "error sending request"
    ELSE "error decoding response body"

(* Deserialize of a JSON value as the type U.  Every number of the model   *)
(* is below 2^31, so a number fails to be a u32 only by being negative.    *)
Decode(v, U) ==
    CASE U = "u32" ->
            IF v.t = "num" /\ v.v >= 0
            THEN Ok(v.v) ELSE Err("invalid type")
      [] U = "map" ->
            IF v.t = "obj" /\ \A k \in DOMAIN v.v : v.v[k].t = "str"
            THEN Ok([k \in DOMAIN v.v |-> v.v[k].v]) ELSE Err("invalid type")
      [] U = "i64" ->
            IF v.t = "num" THEN Ok(v.v) ELSE Err("invalid type")
      [] U = "String" ->
            IF v.t = "str" THEN Ok(v.v) ELSE Err("invalid type")
      [] U = "bool" ->
            IF v.t = "bool" THEN Ok(v.v) ELSE Err("invalid type")
      [] U = "Vec<String>" ->
            IF v.t = "arr" /\ \A k \in DOMAIN v.v : v.v[k].t = "str"
            THEN Ok([k \in DOMAIN v.v |-> v.v[k].v]) ELSE Err("invalid type")
      [] U = "Option<String>" ->
            IF v.t = "null" THEN Ok(None)
            ELSE IF v.t = "str" THEN Ok(Some(v.v)) ELSE Err("invalid type")
      [] OTHER -> Ok(v)

(* The adapter with a test for false in front of the decoding.             *)
deserialize_odoo_nullable_false_first(data, E) ==
    LET b == Decode(data, E)
    IN  IF data = JBool(FALSE) THEN Ok(None)
        ELSE IF b.kind = "Ok" THEN Ok(Some(b.val)) ELSE Ok(None)

(* The adapter absorbing the failure for false only.                       *)
deserialize_odoo_nullable_propagate(data, E) ==
    LET b == Decode(data, E)
    IN  IF b.kind = "Ok" THEN Ok(Some(b.val))
        ELSE IF data = JBool(FALSE) THEN Ok(None) ELSE b

(* deserialize_odoo_nullable::<D, E>(data): Option<E> of the raw value.    *)
deserialize_odoo_nullable(data, E) ==
    LET b == Decode(data, E)
    IN  IF b.kind = "Ok" THEN Ok(Some(b.val)) ELSE Ok(None)

(* Response<U> (crate::api): the envelope of a reply, with a result of     *)
(* type U (login reads response.result as a u32) and an optional error.    *)
(* An error field makes the result absent; a reply without a usable result *)
(* does not decode.                                                        *)
DecodeResponse(reply, U) ==
    IF is_some(reply.error) \/ ~is_some(reply.result)
    THEN Err("missing field result")
    ELSE LET d == Decode(unwrap(reply.result), U)
         IN  IF d.kind = "Ok" THEN Ok([result |-> d.val]) ELSE d

(* Request::new(service, method, params).                                  *)
Request_new(service, method, params) ==
    [service |-> service, method |-> method, params |-> params]

----------------------------------------------------------------------------
(* struct Odoo and its operations.  Each operation is a function of the    *)
(* session, its arguments and the reply of the transport; it yields the    *)
(* session afterwards, the requests posted, and the value returned.        *)

new(host, database) ==
    [host |-> host, database |-> database, uid |-> None, password |-> None]

(* send that posts everything to the generic path.                         *)
send_ignore_url(self, request, url, reply, U) ==
    LET post == [url  |-> self.host \o "/" \o "jsonrpc", body |-> request]
        r    == DecodeResponse(reply, U)
    IN  [posted |-> <<post>>,
         out    |-> IF reply.net = "fail" THEN Err(ReqwestToString("send"))
                    ELSE IF reply.net = "text" \/ r.kind = "Err"
                         THEN Err(ReqwestToString("json"))
                    ELSE r]

(* send that posts again when the connection fails.                        *)
send_retry(self, request, url, reply, U) ==
    LET post == [url  |-> self.host \o "/" \o
                          (IF is_some(url) THEN unwrap(url) ELSE "jsonrpc"),
                 body |-> request]
        r    == DecodeResponse(reply, U)
    IN  [posted |-> IF reply.net = "fail" THEN <<post, post>> ELSE <<post>>,
         out    |-> IF reply.net = "fail" THEN Err(ReqwestToString("send"))
                    ELSE IF reply.net = "text" \/ r.kind = "Err"
                         THEN Err(ReqwestToString("json"))
                    ELSE r]

(* send that reads the result out of the body and nothing else.            *)
send_result_only(self, request, url, reply, U) ==
    LET post == [url  |-> self.host \o "/" \o
                          (IF is_some(url) THEN unwrap(url) ELSE "jsonrpc"),
                 body |-> request]
        r    == IF is_some(reply.result)
                THEN Decode(unwrap(reply.result), U)
                ELSE Err("missing field result")
    IN  [posted |-> <<post>>,
         out    |-> IF reply.net = "fail" THEN Err(ReqwestToString("send"))
                    ELSE IF reply.net = "text" \/ r.kind = "Err"
                         THEN Err(ReqwestToString("json"))
                    ELSE Ok([result |-> r.val])]

send(self, request, url, reply, U) ==
    LET post == [url  |-> self.host \o "/" \o
                          (IF is_some(url) THEN unwrap(url) ELSE "jsonrpc"),
                 body |-> request]
        r    == DecodeResponse(reply, U)
    IN  [posted |-> <<post>>,
         out    |-> IF reply.net = "fail" THEN Err(ReqwestToString("send"))
                    ELSE IF reply.net = "text" \/ r.kind = "Err"
                         THEN Err(ReqwestToString("json"))
                    ELSE r]

(* login with the credential stored before the reply is known.             *)
login_store_before_send(self, user, password, reply) ==
    LET request  == Request_new("common", Some("authenticate"),
                        <<JStr(self.database), JStr(user),
                          JStr(password), JStr("")>>)
        response == send(self, request, None, reply, "u32")
        stored   == [self EXCEPT !.password = Some(password)]
    IN  IF response.out.kind = "Err"
        THEN [self |-> stored, posted |-> response.posted,
              ret |-> Err(response.out.msg)]
        ELSE [self |-> [stored EXCEPT !.uid = Some(response.out.val.result)],
              posted |-> response.posted,
              ret |-> Ok(response.out.val.result)]

(* login that forgets the session when the server refuses.                 *)
login_clear_on_failure(self, user, password, reply) ==
    LET request  == Request_new("common", Some("authenticate"),
                        <<JStr(self.database), JStr(user),
                          JStr(password), JStr("")>>)
        response == send(self, request, None, reply, "u32")
    IN  IF response.out.kind = "Err"
        THEN [self |-> [self EXCEPT !.uid = None, !.password = None],
              posted |-> response.posted,
              ret |-> Err(response.out.msg)]
        ELSE [self |-> [self EXCEPT !.uid = Some(response.out.val.result),
                                    !.password = Some(password)],
              posted |-> response.posted,
              ret |-> Ok(response.out.val.result)]

(* login that keeps the login name where the password belongs.             *)
login_store_user(self, user, password, reply) ==
    LET request  == Request_new("common", Some("authenticate"),
                        <<JStr(self.database), JStr(user),
                          JStr(password), JStr("")>>)
        response == send(self, request, None, reply, "u32")
    IN  IF response.out.kind = "Err"
        THEN [self |-> self, posted |-> response.posted,
              ret |-> Err(response.out.msg)]
        ELSE [self |-> [self EXCEPT !.uid = Some(response.out.val.result),
                                    !.password = Some(user)],
              posted |-> response.posted,
              ret |-> Ok(response.out.val.result)]

(* login with login name and password in the position of the other.       *)
login_swapped_params(self, user, password, reply) ==
    LET request  == Request_new("common", Some("authenticate"),
                        <<JStr(self.database), JStr(password),
                          JStr(user), JStr("")>>)
        response == send(self, request, None, reply, "u32")
    IN  IF response.out.kind = "Err"
        THEN [self |-> self, posted |-> response.posted,
              ret |-> Err(response.out.msg)]
        ELSE [self |-> [self EXCEPT !.uid = Some(response.out.val.result),
                                    !.password = Some(password)],
              posted |-> response.posted,
              ret |-> Ok(response.out.val.result)]

(* login that stores the id and leaves the credential as it was.           *)
login_forget_password(self, user, password, reply) ==
    LET request  == Request_new("common", Some("authenticate"),
                        <<JStr(self.database), JStr(user),
                          JStr(password), JStr("")>>)
        response == send(self, request, None, reply, "u32")
    IN  IF response.out.kind = "Err"
        THEN [self |-> self, posted |-> response.posted,
              ret |-> Err(response.out.msg)]
        ELSE [self |-> [self EXCEPT !.uid = Some(response.out.val.result)],
              posted |-> response.posted,
              ret |-> Ok(response.out.val.result)]

login(self, user, password, reply) ==
    LET request  == Request_new("common", Some("authenticate"),
                        <<JStr(self.database), JStr(user),
                          JStr(password), JStr("")>>)
        response == send(self, request, None, reply, "u32")
    IN  IF response.out.kind = "Err"
        THEN [self |-> self, posted |-> response.posted,
              ret |-> Err(response.out.msg)]
        ELSE [self |-> [self EXCEPT !.uid = Some(response.out.val.result),
                                    !.password = Some(password)],
              posted |-> response.posted,
              ret |-> Ok(response.out.val.result)]


(* new_and_login that drops the result of login.                           *)
new_and_login_ignore_error(host, database, user, password, reply) ==
    LET odoo == new(host, database)
        r    == login(odoo, user, password, reply)
    IN  [posted |-> r.posted, ret |-> Ok(r.self)]

new_and_login(host, database, user, password, reply) ==
    LET odoo == new(host, database)
        r    == login(odoo, user, password, reply)
    IN  IF r.ret.kind = "Err"
        THEN [posted |-> r.posted, ret |-> Err(r.ret.msg)]
        ELSE [posted |-> r.posted, ret |-> Ok(r.self)]

(* start that keeps the database the server suggests.                      *)
start_store_database(self, reply) ==
    LET request  == Request_new("common", Some("start"), <<>>)
        response == send(self, request, Some("start"), reply, "map")
    IN  IF response.out.kind = "Err"
        THEN [self |-> self, posted |-> response.posted,
              ret |-> Err(response.out.msg)]
        ELSE [self |-> [self EXCEPT
                           !.database = response.out.val.result["database"]],
              posted |-> response.posted,
              ret |-> Ok(response.out.val.result)]

start(self, reply) ==
    LET request  == Request_new("common", Some("start"), <<>>)
        response == send(self, request, Some("start"), reply, "map")
    IN  IF response.out.kind = "Err"
        THEN [self |-> self, posted |-> response.posted,
              ret |-> Err(response.out.msg)]
        ELSE [self |-> self, posted |-> response.posted,
              ret |-> Ok(response.out.val.result)]

UnwrapNone == "called Option::unwrap() on a None value"

(* call that falls back to an empty credential instead of unwrapping.      *)
call_no_guard(self, model, method, args, reply, U) ==
    LET password == IF is_some(self.password) THEN unwrap(self.password)
                    ELSE ""
        request  == Request_new("object", None,
                        <<JStr(self.database), SerOptU32(self.uid),
                          JStr(password), JStr(model), JStr(method), args>>)
        response == send(self, request, None, reply, U)
    IN  [self |-> self, posted |-> response.posted,
         ret |-> IF response.out.kind = "Err"
                 THEN Err(response.out.msg) ELSE response.out]

(* call with model and method in the position of the other.                    *)
call_swapped(self, model, method, args, reply, U) ==
    IF ~is_some(self.password)
    THEN [self |-> self, posted |-> <<>>, ret |-> Panic(UnwrapNone)]
    ELSE
    LET password == unwrap(self.password)
        request  == Request_new("object", None,
                        <<JStr(self.database), SerOptU32(self.uid),
                          JStr(password), JStr(method), JStr(model), args>>)
        response == send(self, request, None, reply, U)
    IN  [self |-> self, posted |-> response.posted,
         ret |-> IF response.out.kind = "Err"
                 THEN Err(response.out.msg) ELSE response.out]

call(self, model, method, args, reply, U) ==
    IF ~is_some(self.password)
    THEN [self |-> self, posted |-> <<>>, ret |-> Panic(UnwrapNone)]
    ELSE
    LET password == unwrap(self.password)
        request  == Request_new("object", None,
                        <<JStr(self.database), SerOptU32(self.uid),
                          JStr(password), JStr(model), JStr(method), args>>)
        response == send(self, request, None, reply, U)
    IN  [self |-> self, posted |-> response.posted,
         ret |-> IF response.out.kind = "Err"
                 THEN Err(response.out.msg) ELSE response.out]

(* Map::insert.                                                            *)
insert(m, key, value) ==
    [k \in DOMAIN m \cup {key} |-> IF k = key THEN value ELSE m[k]]

(* The options object with an omitted limit or offset written as null.     *)
search_read_values_null(fields, limit, offset) ==
    LET fs      == IF is_some(fields) THEN unwrap(fields) ELSE <<>>
        values0 == insert(<<>>, "fields",
                          JArr([i \in 1..Len(fs) |-> JStr(fs[i])]))
        values1 == insert(values0, "limit", SerOptU32(limit))
    IN  insert(values1, "offset", SerOptU32(offset))

(* The options object search_read builds from fields, limit and offset.    *)
search_read_values(fields, limit, offset) ==
    LET fs      == IF is_some(fields) THEN unwrap(fields) ELSE <<>>
        values0 == insert(<<>>, "fields",
                          JArr([i \in 1..Len(fs) |-> JStr(fs[i])]))
        values1 == IF is_some(limit)
                   THEN insert(values0, "limit", JNum(unwrap(limit)))
                   ELSE values0
    IN  IF is_some(offset)
        THEN insert(values1, "offset", JNum(unwrap(offset)))
        ELSE values1

search_read(self, model, domain, fields, limit, offset, reply, U) ==
    IF ~is_some(self.password)
    THEN [self |-> self, posted |-> <<>>, ret |-> Panic(UnwrapNone)]
    ELSE
    LET password == unwrap(self.password)
        values   == search_read_values(fields, limit, offset)
        request  == Request_new("object", None,
                        <<JStr(self.database), SerOptU32(self.uid),
                          JStr(password), JStr(model), JStr("search_read"),
                          JArr(<<domain>>), JObj(values)>>)
        response == send(self, request, None, reply, U)
    IN  [self |-> self, posted |-> response.posted,
         ret |-> IF response.out.kind = "Err"
                 THEN Err(response.out.msg) ELSE response.out]

----------------------------------------------------------------------------
VARIABLES
    odoo,      \* the session the caller holds
    sent,      \* the requests the last operation posted to the transport
    last,      \* the last operation: its name, inputs, reply and result
    identity,  \* what the last successful login on odoo was given
    caller,    \* the task that calls the operations: running or panicked
    inflight   \* the futures polled and not yet completed

vars == <<odoo, sent, last, identity, caller, inflight>>

Init ==
    /\ \E h \in Hosts, d \in Databases : odoo = new(h, d)
    /\ sent = <<>>
    /\ last = Completed("new", <<>>, None, Ok(JNull))
    /\ identity = None
    /\ caller = "running"
    /\ inflight = {}

(* What becomes of the caller when an operation returns: a panic (the      *)
(* unwrap of None in call and search_read) unwinds it, and it goes on      *)
(* only where the unwinding is caught; with it ends its use of the         *)
(* session.                                                                *)
Unwind(ret) ==
    IF ret.kind = "Panic" THEN {"running", "panicked"} ELSE {"running"}

(* login(user, password) on the session, answered by reply.  identity      *)
(* records, from the reply and the argument, what a successful login was   *)
(* given.                                                                  *)
Login ==
    \E user \in Logins, password \in Passwords, reply \in Replies :
       LET r == login(odoo, user, password, reply)
       IN  /\ caller = "running"
           /\ UNCHANGED <<caller, inflight>>
           /\ odoo' = r.self
           /\ sent' = r.posted
           /\ last' = Completed("login",
                       [user |-> user, password |-> password],
                       Some(reply), r.ret)
           /\ identity' =
                 IF r.ret.kind = "Ok"
                 THEN Some([uid |-> unwrap(reply.result).v,
                            returned |-> r.ret.val,
                            password |-> password])
                 ELSE identity

(* new_and_login builds a session of its own and returns it, or an error.  *)
NewAndLogin ==
    \E h \in Hosts, d \in Databases, user \in Logins, password \in Passwords,
       reply \in Replies :
       LET r == new_and_login(h, d, user, password, reply)
       IN  /\ caller = "running"
           /\ UNCHANGED <<caller, inflight>>
           /\ sent' = r.posted
           /\ last' = Completed("new_and_login",
                       [host |-> h, database |-> d, user |-> user,
                               password |-> password],
                       Some(reply), r.ret)
           /\ UNCHANGED <<odoo, identity>>

Start ==
    \E reply \in Replies :
       LET r == start(odoo, reply)
       IN  /\ caller = "running"
           /\ UNCHANGED <<caller, inflight>>
           /\ odoo' = r.self
           /\ sent' = r.posted
           /\ last' = Completed("start", <<>>, Some(reply),
                       r.ret)
           /\ UNCHANGED identity

(* A call that panics posts nothing and consumes no reply, and leaves the  *)
(* session untouched.                                                      *)
Call ==
    \E model \in Models, method \in Methods, args \in Args,
       reply \in Replies, U \in TypesU :
       LET r == call(odoo, model, method, args, reply, U)
       IN  /\ caller = "running"
           /\ caller' \in Unwind(r.ret)
           /\ UNCHANGED inflight
           /\ odoo' = r.self
           /\ sent' = r.posted
           /\ last' = Completed("call",
                       [model |-> model, method |-> method,
                               args |-> args, U |-> U],
                       IF r.posted = <<>> THEN None
                                 ELSE Some(reply),
                       r.ret)
           /\ UNCHANGED identity

SearchRead ==
    \E model \in Models, domain \in Domains, fields \in FieldLists,
       limit \in Pages, offset \in Pages, reply \in Replies, U \in TypesU :
       LET r == search_read(odoo, model, domain, fields, limit, offset,
                            reply, U)
       IN  /\ caller = "running"
           /\ caller' \in Unwind(r.ret)
           /\ UNCHANGED inflight
           /\ odoo' = r.self
           /\ sent' = r.posted
           /\ last' = Completed("search_read",
                       [model |-> model, domain |-> domain,
                               fields |-> fields, limit |-> limit,
                               offset |-> offset, U |-> U],
                       IF r.posted = <<>> THEN None
                                 ELSE Some(reply),
                       r.ret)
           /\ UNCHANGED identity

Next == Login \/ NewAndLogin \/ Start \/ Call \/ SearchRead

Spec == Init /\ [][Next]_vars

(* The Nullable Adapter on its own: one field of declared type E decoded   *)
(* from a raw value.                                                       *)
Nullable ==
    \E data \in RawFields, E \in TypesE :
       /\ last' = Completed("deserialize_odoo_nullable",
                   [data |-> data, E |-> E], None,
                   deserialize_odoo_nullable(data, E))
       /\ UNCHANGED <<odoo, sent, identity, caller, inflight>>

NextNullable == Nullable

SpecNullable == Init /\ [][NextNullable]_vars

----------------------------------------------------------------------------
(* The operations as futures.  A future runs from its first poll to the    *)
(* await of send (line 164), where others may run, and from the reply to   *)
(* its return.  A future borrows the session for as long as it exists:     *)
(* login(&mut self) exclusively, call(&self) and search_read(&self)        *)
(* shared.  Here identity collects what every successful login was given.  *)

(* The replies the transport has for the futures.                          *)
FutureReplies ==
    {[net |-> "fail", result |-> None, error |-> None]} \cup
    {[net |-> "json", result |-> Some(JNum(n)), error |-> None] :
        n \in {0, MaxUid}}

(* A request is built and posted before its reply exists.                  *)
Pending == [net |-> "fail", result |-> None, error |-> None]

(* A shared borrow that is granted whatever else borrows the session.      *)
SharedBorrow_unchecked(futures) == TRUE

(* &self: granted unless a future holds the session exclusively.           *)
SharedBorrow(futures) == \A f \in futures : f.op # "login"

(* &mut self: granted only when no future borrows the session.             *)
MutBorrow(futures) == futures = {}

FreeIds == {i \in 1..MaxFutures : \A f \in inflight : f.id # i}

(* The first poll of call: lines 84-99, up to the await in send.           *)
CallPoll ==
    LET in == [model |-> "res.partner", method |-> "search",
               args |-> JArr(<<>>), U |-> "Value"]
        r  == call(odoo, in.model, in.method, in.args, Pending, in.U)
    IN  /\ caller = "running"
        /\ SharedBorrow(inflight)
        /\ FreeIds # {}
        /\ sent' = r.posted
        /\ IF r.ret.kind = "Panic"
           THEN /\ last' = Completed("call", in, None,
                            r.ret)
                /\ caller' \in Unwind(r.ret)
                /\ UNCHANGED inflight
           ELSE /\ inflight' = inflight \cup
                      {[id |-> CHOOSE i \in FreeIds : TRUE, op |-> "call",
                        in |-> in, reply |-> None, pc |-> "await"]}
                /\ UNCHANGED <<last, caller>>
        /\ UNCHANGED <<odoo, identity>>

(* The first poll of search_read: lines 112-152.                           *)
SearchReadPoll ==
    LET in == [model |-> "res.partner",
               domain |-> CHOOSE d \in Domains : TRUE, fields |-> None,
               limit |-> None, offset |-> None, U |-> "Value"]
        r  == search_read(odoo, in.model, in.domain, in.fields, in.limit,
                          in.offset, Pending, in.U)
    IN  /\ caller = "running"
        /\ SharedBorrow(inflight)
        /\ FreeIds # {}
        /\ sent' = r.posted
        /\ IF r.ret.kind = "Panic"
           THEN /\ last' = Completed("search_read", in, None,
                            r.ret)
                /\ caller' \in Unwind(r.ret)
                /\ UNCHANGED inflight
           ELSE /\ inflight' = inflight \cup
                      {[id |-> CHOOSE i \in FreeIds : TRUE,
                        op |-> "search_read", in |-> in, reply |-> None,
                        pc |-> "await"]}
                /\ UNCHANGED <<last, caller>>
        /\ UNCHANGED <<odoo, identity>>

(* The reply of a call arrives and the future returns (lines 99-101).      *)
CallReturn ==
    \E f \in inflight, reply \in FutureReplies :
       /\ caller = "running"
       /\ f.op = "call"
       /\ last' = Completed("call", f.in, Some(reply),
                   call(odoo, f.in.model, f.in.method, f.in.args,
                                reply, f.in.U).ret)
       /\ sent' = <<>>
       /\ inflight' = inflight \ {f}
       /\ UNCHANGED <<odoo, identity, caller>>

(* The reply of a search_read arrives and the future returns (152-154).    *)
SearchReadReturn ==
    \E f \in inflight, reply \in FutureReplies :
       /\ caller = "running"
       /\ f.op = "search_read"
       /\ last' = Completed("search_read", f.in, Some(reply),
                   search_read(odoo, f.in.model, f.in.domain,
                                       f.in.fields, f.in.limit, f.in.offset,
                                       reply, f.in.U).ret)
       /\ sent' = <<>>
       /\ inflight' = inflight \ {f}
       /\ UNCHANGED <<odoo, identity, caller>>

(* The first poll of login: lines 53-59, up to the await in send.          *)
LoginPoll ==
    \E user \in Logins, password \in Passwords :
       /\ caller = "running"
       /\ MutBorrow(inflight)
       /\ sent' = login(odoo, user, password, Pending).posted
       /\ inflight' = inflight \cup
                         {[id |-> 0, op |-> "login",
                           in |-> [user |-> user, password |-> password],
                           reply |-> None, pc |-> "await"]}
       /\ UNCHANGED <<odoo, last, identity, caller>>

(* The reply of login arrives: it returns the failure (line 61), or goes   *)
(* on to store the id (line 62).                                           *)
LoginStoreUid ==
    \E f \in inflight, reply \in FutureReplies :
       LET r == login(odoo, f.in.user, f.in.password, reply)
       IN  /\ caller = "running"
           /\ f.op = "login"
           /\ f.pc = "await"
           /\ sent' = <<>>
           /\ IF r.ret.kind = "Err"
              THEN /\ last' = Completed("login", f.in,
                               Some(reply), r.ret)
                   /\ inflight' = inflight \ {f}
                   /\ UNCHANGED <<odoo, identity>>
              ELSE /\ odoo' = [odoo EXCEPT !.uid = r.self.uid]
                   /\ identity' = identity \cup
                         {[uid |-> unwrap(reply.result).v,
                           returned |-> r.ret.val,
                           password |-> f.in.password]}
                   /\ inflight' = (inflight \ {f}) \cup
                         {[f EXCEPT !.pc = "store_password",
                                    !.reply = Some(reply)]}
                   /\ UNCHANGED last
           /\ UNCHANGED caller

(* login stores the credential and returns the id (lines 63-64).           *)
LoginStorePassword ==
    \E f \in inflight :
       /\ caller = "running"
       /\ f.op = "login"
       /\ f.pc = "store_password"
       /\ LET r == login(odoo, f.in.user, f.in.password, unwrap(f.reply))
          IN  /\ odoo' = [odoo EXCEPT !.password = r.self.password]
              /\ last' = Completed("login", f.in, f.reply,
                          r.ret)
       /\ sent' = <<>>
       /\ inflight' = inflight \ {f}
       /\ UNCHANGED <<identity, caller>>

NextFutures ==
    \/ CallPoll
    \/ SearchReadPoll
    \/ CallReturn
    \/ SearchReadReturn
    \/ LoginPoll
    \/ LoginStoreUid
    \/ LoginStorePassword

SpecFutures == Init /\ [][NextFutures]_vars

----------------------------------------------------------------------------
(* Vocabulary of the properties.                                           *)

Authenticated(o) == is_some(o.uid) /\ is_some(o.password)

(* The requests of the last operation addressed to the object service.     *)
ObjectRequests == {i \in DOMAIN sent : sent[i].body.service = "object"}

(* The reply the last operation received was a JSON body with an error.    *)
RepliedError ==
    /\ is_some(last.reply)
    /\ unwrap(last.reply).net = "json"
    /\ is_some(unwrap(last.reply).error)

----------------------------------------------------------------------------
(* C1: a login that fails (transport failure, remote error, or a result    *)
(* that is not a numeric id) leaves uid and password as they were before   *)
(* the call, on a fresh session and on an authenticated one alike.         *)
C1_FailedLoginKeepsState ==
    [][(last'.op = "login" /\ last'.ret.kind # "Ok")
          => (odoo'.uid = odoo.uid /\ odoo'.password = odoo.password)]_vars

(* A login failed on a session that an earlier login had authenticated.    *)
C1_Witness ==
    /\ last.op = "login"
    /\ last.ret.kind = "Err"
    /\ unwrap(last.reply).net = "json"
    /\ unwrap(last.reply).result = Some(JBool(FALSE))
    /\ Authenticated(odoo)

(* C2: call on a session on which no login has succeeded returns an error  *)
(* value to its caller and posts no request.                               *)
C2_UnauthenticatedCallReturnsErr ==
    (last.op = "call" /\ ~Authenticated(odoo))
       => (last.ret.kind = "Err" /\ sent = <<>>)

(* C3: every request posted to the object service carries a user id that   *)
(* is a number and a credential, and is posted by an authenticated         *)
(* session.                                                                *)
C3_ObjectRequestsAuthenticated ==
    \A i \in ObjectRequests :
       /\ Authenticated(odoo)
       /\ sent[i].body.params[2].t = "num"
       /\ sent[i].body.params[3] = JStr(unwrap(odoo.password))

(* search_read posted a request to the object service.                     *)
C3_Witness ==
    /\ last.op = "search_read"
    /\ ObjectRequests # {}

(* C4: once uid and password are present they stay present, whatever       *)
(* operation follows.                                                      *)
C4_NeverUnauthenticatedAgain ==
    [][Authenticated(odoo) => Authenticated(odoo')]_vars

(* A login refused by the server on an authenticated session.              *)
C4_Witness ==
    /\ last.op = "login"
    /\ last.ret.kind = "Err"
    /\ RepliedError
    /\ Authenticated(odoo)

(* C5: new_and_login returns a session exactly when the login on the       *)
(* session it built succeeds, that session has uid and password present,   *)
(* and otherwise it returns the failure of that login.                     *)
C5_NewAndLoginAllOrNothing ==
    last.op = "new_and_login" =>
       LET r == login(new(last.in.host, last.in.database), last.in.user,
                      last.in.password, unwrap(last.reply))
       IN  /\ last.ret.kind \in {"Ok", "Err"}
           /\ last.ret.kind = r.ret.kind
           /\ last.ret.kind = "Ok" => /\ Authenticated(last.ret.val)
                                      /\ last.ret.val = r.self
           /\ last.ret.kind = "Err" => last.ret = r.ret

(* new_and_login was refused by the server.                                *)
C5_Witness ==
    /\ last.op = "new_and_login"
    /\ last.ret.kind = "Err"
    /\ RepliedError

(* C6: a request to the object service names the database of the session,  *)
(* the id the last successful login got from the server and returned, and  *)
(* the password that login was given.                                      *)
C6_StampedWithLastLogin ==
    \A i \in ObjectRequests :
       /\ is_some(identity)
       /\ unwrap(identity).returned = unwrap(identity).uid
       /\ sent[i].body.params[1] = JStr(odoo.database)
       /\ sent[i].body.params[2] = JNum(unwrap(identity).uid)
       /\ sent[i].body.params[3] = JStr(unwrap(identity).password)

(* call posted a request for the user MaxUid who logged in with "pw2".     *)
C6_Witness ==
    /\ last.op = "call"
    /\ ObjectRequests # {}
    /\ identity = Some([uid |-> MaxUid, returned |-> MaxUid,
                        password |-> "pw2"])

(* C7: when the reply carries an error field, login, call and search_read  *)
(* return a failure whose message is the one the server gave.              *)
C7_RemoteErrorCarriesMessage ==
    (last.op \in {"login", "call", "search_read"} /\ RepliedError)
       => /\ last.ret.kind = "Err"
          /\ last.ret.msg = unwrap(unwrap(last.reply).error)

(* C8: call on an authenticated session posts one envelope with service    *)
(* "object", no method, and the params database, uid, password, model,     *)
(* method, args in this order, args as given.                              *)
C8_CallEnvelope ==
    (last.op = "call" /\ Authenticated(odoo)) =>
       /\ Len(sent) = 1
       /\ sent[1].body.service = "object"
       /\ sent[1].body.method = None
       /\ sent[1].body.params =
             <<JStr(odoo.database), JNum(unwrap(odoo.uid)),
               JStr(unwrap(odoo.password)), JStr(last.in.model),
               JStr(last.in.method), last.in.args>>

(* call posted the method "read" with a non-empty argument list.           *)
C8_Witness ==
    /\ last.op = "call"
    /\ Len(sent) = 1
    /\ last.in.method = "read"
    /\ last.in.args # JArr(<<>>)

(* C9: the last parameter of a search_read request is an object that has   *)
(* "fields" (the given names in order, or the empty list), has "limit"     *)
(* exactly when a limit was given, with its value, has "offset" exactly    *)
(* when an offset was given, with its value, and holds no null.            *)
C9_SearchReadOptions ==
    (last.op = "search_read" /\ sent # <<>>) =>
       LET params  == sent[1].body.params
           options == params[Len(params)]
           given   == IF is_some(last.in.fields)
                      THEN unwrap(last.in.fields) ELSE <<>>
       IN  /\ options.t = "obj"
           /\ DOMAIN options.v \subseteq {"fields", "limit", "offset"}
           /\ "fields" \in DOMAIN options.v
           /\ options.v["fields"].t = "arr"
           /\ Len(options.v["fields"].v) = Len(given)
           /\ \A k \in 1..Len(given) :
                 options.v["fields"].v[k] = JStr(given[k])
           /\ ("limit" \in DOMAIN options.v) <=> is_some(last.in.limit)
           /\ is_some(last.in.limit)
                 => options.v["limit"] = JNum(unwrap(last.in.limit))
           /\ ("offset" \in DOMAIN options.v) <=> is_some(last.in.offset)
           /\ is_some(last.in.offset)
                 => options.v["offset"] = JNum(unwrap(last.in.offset))
           /\ \A k \in DOMAIN options.v : options.v[k].t # "null"

(* search_read posted a request with two fields, a limit and no offset.    *)
C9_Witness ==
    /\ last.op = "search_read"
    /\ sent # <<>>
    /\ last.in.fields = Some(<<"name", "default_code">>)
    /\ is_some(last.in.limit)
    /\ ~is_some(last.in.offset)

(* C10: start posts one request, to host/start, whatever the session; the  *)
(* requests of login, new_and_login, call and search_read go to            *)
(* host/jsonrpc.                                                           *)
C10_EndpointRouting ==
    LET host == IF last.op = "new_and_login" THEN last.in.host
                ELSE odoo.host
    IN  /\ last.op = "start" => Len(sent) = 1
        /\ \A i \in DOMAIN sent :
              /\ last.op = "start" <=> sent[i].url = host \o "/start"
              /\ last.op # "start" => sent[i].url = host \o "/jsonrpc"

(* start succeeded on an unauthenticated session with an empty database.   *)
C10_Witness ==
    /\ last.op = "start"
    /\ last.ret.kind = "Ok"
    /\ odoo.database = ""
    /\ ~is_some(odoo.uid)
    /\ ~is_some(odoo.password)

(* C11: through the adapter, false becomes absent for every declared type  *)
(* that does not itself accept a JSON boolean, and a raw value that        *)
(* decodes as the declared type becomes present with the decoded value.    *)
C11_NullableDecodes ==
    last.op = "deserialize_odoo_nullable" =>
       LET d == Decode(last.in.data, last.in.E)
       IN  /\ (last.in.data = JBool(FALSE) /\ d.kind = "Err")
                 => last.ret = Ok(None)
           /\ d.kind = "Ok" => last.ret = Ok(Some(d.val))

(* false was decoded for a field declared as a string.                     *)
C11_Witness ==
    /\ last.op = "deserialize_odoo_nullable"
    /\ last.in.data = JBool(FALSE)
    /\ last.in.E = "String"
    /\ last.ret = Ok(None)

(* C11 as stated: false becomes absent for every declared type other than  *)
(* bool, and a raw value that decodes becomes present.                     *)
C11_FalseAbsentForNonBool ==
    last.op = "deserialize_odoo_nullable" =>
       LET d == Decode(last.in.data, last.in.E)
       IN  /\ (last.in.data = JBool(FALSE) /\ last.in.E # "bool")
                 => last.ret = Ok(None)
           /\ d.kind = "Ok" => last.ret = Ok(Some(d.val))

(* C12: the adapter returns present or absent for every raw value and      *)
(* every declared type, never an error, and absent whenever the raw value  *)
(* does not decode as the declared type.                                   *)
C12_NullableNeverFails ==
    last.op = "deserialize_odoo_nullable" =>
       /\ last.ret.kind = "Ok"
       /\ Cardinality(last.ret.val) <= 1
       /\ Decode(last.in.data, last.in.E).kind = "Err" => last.ret.val = None

(* An object was decoded for a field declared as a number.                 *)
C12_Witness ==
    /\ last.op = "deserialize_odoo_nullable"
    /\ last.in.data.t = "obj"
    /\ last.in.E = "u32"
    /\ last.ret = Ok(None)

(* C13: an invocation of start, login, call, search_read or new_and_login  *)
(* posts at most one request, the one its reply answers, also when it      *)
(* fails.                                                                  *)
C13_NoRetries ==
    last.op \in {"start", "login", "call", "search_read", "new_and_login"} =>
       /\ Len(sent) <= 1
       /\ Len(sent) = 1 <=> is_some(last.reply)

(* A login whose connection failed.                                        *)
C13_Witness ==
    /\ last.op = "login"
    /\ last.ret.kind = "Err"
    /\ unwrap(last.reply).net = "fail"
    /\ Len(sent) = 1

(* C14: login posts exactly one envelope, with service "common", method    *)
(* "authenticate" and the params database of the session, login name,      *)
(* password, empty string, in this order.                                  *)
C14_LoginEnvelope ==
    last.op = "login" =>
       /\ Len(sent) = 1
       /\ sent[1].body.service = "common"
       /\ sent[1].body.method = Some("authenticate")
       /\ sent[1].body.params =
             <<JStr(odoo.database), JStr(last.in.user),
               JStr(last.in.password), JStr("")>>

(* A login with the password "pw2" on the database "db".                   *)
C14_Witness ==
    /\ last.op = "login"
    /\ last.in.password = "pw2"
    /\ odoo.database = "db"
    /\ Len(sent) = 1

(* The reply of the last operation was a JSON body with both result and    *)
(* error, or with neither.                                                 *)
Malformed ==
    /\ is_some(last.reply)
    /\ unwrap(last.reply).net = "json"
    /\ is_some(unwrap(last.reply).result) <=> is_some(unwrap(last.reply).error)

C17_SessionFrame ==
    [][/\ last'.op \in {"start", "call", "search_read"} => odoo' = odoo
       /\ odoo'.host = odoo.host
       /\ odoo'.database = odoo.database]_vars

(* start succeeded on an authenticated session.                            *)
C17_Witness ==
    /\ last.op = "start"
    /\ last.ret.kind = "Ok"
    /\ Authenticated(odoo)

(* C19: uid is present exactly when password is, in the session and in     *)
(* every session new_and_login returns; new posts nothing and leaves both  *)
(* absent.                                                                 *)
C19_UidIffPassword ==
    /\ is_some(odoo.uid) <=> is_some(odoo.password)
    /\ (last.op = "new_and_login" /\ last.ret.kind = "Ok")
          => (is_some(last.ret.val.uid) <=> is_some(last.ret.val.password))
    /\ last.op = "new"
          => (sent = <<>> /\ odoo.uid = None /\ odoo.password = None)

(* A login that succeeded with the id 0.                                   *)
C19_Witness ==
    /\ last.op = "login"
    /\ last.ret = Ok(0)
    /\ odoo.uid = Some(0)
    /\ is_some(odoo.password)

(* C15: a call or search_read rejected because no login has succeeded      *)
(* posts nothing and ends that call only: the caller goes on and can still *)
(* log in and call on the same session.                                    *)
C15_RejectionFatalToCallOnly ==
    (last.op \in {"call", "search_read"} /\ ~Authenticated(odoo))
       => (sent = <<>> /\ caller = "running")

(* C18: whatever the interleaving of the futures of call, search_read and  *)
(* login, a request to the object service carries the id and the password  *)
(* of one and the same successful login.                                   *)
C18_NoTornIdentity ==
    \A i \in ObjectRequests :
       \E l \in identity :
          /\ sent[i].body.params[2] = JNum(l.uid)
          /\ sent[i].body.params[3] = JStr(l.password)

(* A request is posted while another future is in flight, after two        *)
(* logins with different ids and passwords.                                *)
C18_Witness ==
    /\ ObjectRequests # {}
    /\ Cardinality(inflight) = 2
    /\ \E k, l \in identity : k.uid # l.uid /\ k.password # l.password

====
